---- MODULE Spec2Model ----
(***************************************************************************)
(* Model of SmartDocumentChunker (src/util/smart_chunking.py).             *)
(*                                                                         *)
(* A Python str is a sequence of one-character strings, so that split,     *)
(* strip, substring tests, int() and f-string formatting are computed the  *)
(* way Python computes them.  A call is one step: the state holds the      *)
(* arguments of the call and, after it, the returned value or the fact     *)
(* that an exception left the call.                                        *)
(***************************************************************************)
EXTENDS Integers, Sequences, FiniteSets, TLC

VARIABLES
    text,           \* argument text
    file_path,      \* argument file_path
    images,         \* argument images: None or a list of <<name, ocr_text>>
    links,          \* argument links: None or a list of strings
    chunk_size,     \* self.chunk_size
    chunk_overlap,  \* self.chunk_overlap
    pc,             \* "new" (before the constructor), "rejected" (it raised),
                    \* "start", "chunked" (chunk_document returned or raised),
                    \* "analyzed" (extract_headers_and_structure returned)
    chunks,         \* the list chunk_document returned
    raised,         \* TRUE when chunk_document raised instead of returning
    structure       \* the dict extract_headers_and_structure returned

vars == <<text, file_path, images, links, chunk_size, chunk_overlap,
          pc, chunks, raised, structure>>

(***************************************************************************)
(* Python values                                                           *)
(***************************************************************************)
\* an optional list argument: None, or the list that is passed
None == [given |-> FALSE, value |-> <<>>]

Given(list) == [given |-> TRUE, value |-> list]

\* `x or []`
OrEmpty(x) == IF x.given THEN x.value ELSE <<>>

\* no value yet
Nothing == "Nothing"

Digits == <<"0", "1", "2", "3", "4", "5", "6", "7", "8", "9">>

DigitSet == {Digits[i] : i \in 1..10}

DigitValue(c) == (CHOOSE i \in 1..10 : Digits[i] = c) - 1

UpperSet == {"A", "B", "C", "D", "E", "F", "G", "H", "I", "J", "K", "L", "M",
             "N", "O", "P", "Q", "R", "S", "T", "U", "V", "W", "X", "Y", "Z"}

LowerSet == {"a", "b", "c", "d", "e", "f", "g", "h", "i", "j", "k", "l", "m",
             "n", "o", "p", "q", "r", "s", "t", "u", "v", "w", "x", "y", "z"}

Uppers == <<"A", "B", "C", "D", "E", "F", "G", "H", "I", "J", "K", "L", "M",
            "N", "O", "P", "Q", "R", "S", "T", "U", "V", "W", "X", "Y", "Z">>

Lowers == <<"a", "b", "c", "d", "e", "f", "g", "h", "i", "j", "k", "l", "m",
            "n", "o", "p", "q", "r", "s", "t", "u", "v", "w", "x", "y", "z">>

\* the characters str.strip() removes and \s matches
IsSpace(c) == c \in {" ", "\n"}

\* str.lower()
LowerChar(c) == IF c \in UpperSet THEN Lowers[CHOOSE i \in 1..26 : Uppers[i] = c] ELSE c

Lower(s) == [i \in 1..Len(s) |-> LowerChar(s[i])]

\* s[i:] with a 1-based i
Drop(s, i) == SubSeq(s, i, Len(s))

\* s.startswith(p) at the 1-based position i
MatchAt(s, p, i) ==
    /\ i + Len(p) - 1 <= Len(s)
    /\ \A k \in 1..Len(p) : s[i + k - 1] = p[k]

StartsWith(s, p) == MatchAt(s, p, 1)

\* s.find(p, i): the first position >= i where p occurs, 0 when there is none
Find(s, p, i) ==
    LET hits == {j \in i..(Len(s) - Len(p) + 1) : MatchAt(s, p, j)}
    IN  IF hits = {} THEN 0 ELSE CHOOSE j \in hits : \A k \in hits : j <= k

\* `p in s`
Contains(s, p) == Find(s, p, 1) # 0

\* s.strip()
Strip(s) ==
    LET keep == {i \in 1..Len(s) : ~IsSpace(s[i])}
    IN  IF keep = {} THEN <<>>
        ELSE SubSeq(s, CHOOSE i \in keep : \A k \in keep : i <= k,
                       CHOOSE i \in keep : \A k \in keep : i >= k)

RECURSIVE SplitFrom(_, _, _)
SplitFrom(s, sep, i) ==
    LET j == Find(s, sep, i)
    IN  IF j = 0 THEN <<Drop(s, i)>>
        ELSE <<SubSeq(s, i, j - 1)>> \o SplitFrom(s, sep, j + Len(sep))

\* s.split(sep), sep not empty
Split(s, sep) == SplitFrom(s, sep, 1)

\* s.split(sep, 1)
SplitOnce(s, sep) ==
    LET j == Find(s, sep, 1)
    IN  IF j = 0 THEN <<s>> ELSE <<SubSeq(s, 1, j - 1), Drop(s, j + Len(sep))>>

\* whether int(s) returns: optional surrounding whitespace, an optional sign, digits
IntOk(s) ==
    LET t == Strip(s)
        d == IF Len(t) > 0 /\ t[1] = "-" THEN Tail(t) ELSE t
    IN  Len(d) > 0 /\ \A i \in 1..Len(d) : d[i] \in DigitSet

RECURSIVE DigitsValue(_)
DigitsValue(d) ==
    IF d = <<>> THEN 0
    ELSE 10 * DigitsValue(SubSeq(d, 1, Len(d) - 1)) + DigitValue(d[Len(d)])

\* int(s), where it returns
IntOf(s) ==
    LET t == Strip(s)
    IN  IF t[1] = "-" THEN 0 - DigitsValue(Tail(t)) ELSE DigitsValue(t)

RECURSIVE NatStr(_)
NatStr(n) == IF n < 10 THEN <<Digits[n + 1]>> ELSE NatStr(n \div 10) \o <<Digits[(n % 10) + 1]>>

\* str(n), as an f-string formats an int
IntStr(n) == IF n < 0 THEN <<"-">> \o NatStr(0 - n) ELSE NatStr(n)

(***************************************************************************)
(* RecursiveCharacterTextSplitter(chunk_size, chunk_overlap), the splitter *)
(* self.default_splitter is constructed as: separators "\n\n", "\n", " ",  *)
(* "" tried in this order, keep_separator = True (a separator stays at the *)
(* start of the piece that follows it), strip_whitespace = True.           *)
(***************************************************************************)
Separators == << <<"\n", "\n">>, <<"\n">>, <<" ">>, <<>> >>

RECURSIVE Join(_, _)
\* sep.join(parts)
Join(parts, sep) ==
    IF parts = <<>> THEN <<>>
    ELSE IF Len(parts) = 1 THEN parts[1]
    ELSE parts[1] \o sep \o Join(Tail(parts), sep)

\* the elements of a list of strings that are not ""
NonEmpty(parts) == SelectSeq(parts, LAMBDA p : p # <<>>)

\* _split_text_with_regex(text, separator, keep_separator = True)
SplitWithRegex(s, sep) ==
    IF sep = <<>> THEN [i \in 1..Len(s) |-> <<s[i]>>]
    ELSE LET parts == Split(s, sep)
         IN  NonEmpty([i \in 1..Len(parts) |->
                          IF i = 1 THEN parts[1] ELSE sep \o parts[i]])

\* TextSplitter._join_docs: no element when the joined text strips to ""
JoinDocs(docs, sep) ==
    LET joined == Strip(Join(docs, sep))
    IN  IF joined = <<>> THEN <<>> ELSE <<joined>>

\* the separator's length, counted when `more` pieces are already there
SepLen(sep, more) == IF more THEN Len(sep) ELSE 0

RECURSIVE PopCurrent(_, _, _, _, _, _)
\* the while loop of _merge_splits: drop pieces from the front of current_doc
\* until what is left fits the overlap and leaves room for the next piece
PopCurrent(cur, total, len, sep, cs, ov) ==
    IF total > ov \/ (total + len + SepLen(sep, Len(cur) > 0) > cs /\ total > 0)
    THEN IF cur = <<>> THEN <<cur, total>>
         ELSE PopCurrent(Tail(cur), total - (Len(cur[1]) + SepLen(sep, Len(cur) > 1)),
                         len, sep, cs, ov)
    ELSE <<cur, total>>

RECURSIVE MergeLoop(_, _, _, _, _, _, _, _)
MergeLoop(splits, i, docs, cur, total, sep, cs, ov) ==
    IF i > Len(splits) THEN docs \o JoinDocs(cur, sep)
    ELSE LET d == splits[i]
             len == Len(d)
             over == total + len + SepLen(sep, Len(cur) > 0) > cs
             flush == over /\ Len(cur) > 0
             popped == IF flush THEN PopCurrent(cur, total, len, sep, cs, ov)
                       ELSE <<cur, total>>
             cur2 == Append(popped[1], d)
         IN  MergeLoop(splits, i + 1,
                       IF flush THEN docs \o JoinDocs(cur, sep) ELSE docs,
                       cur2, popped[2] + len + SepLen(sep, Len(cur2) > 1),
                       sep, cs, ov)

\* TextSplitter._merge_splits(splits, separator)
MergeSplits(splits, sep, cs, ov) == MergeLoop(splits, 1, <<>>, <<>>, 0, sep, cs, ov)

\* the first separator, from position k of the list, that is "" or occurs in s
PickSeparator(s, k) ==
    CHOOSE i \in k..Len(Separators) :
        /\ Separators[i] = <<>> \/ Contains(s, Separators[i])
        /\ \A j \in k..(i - 1) : Separators[j] # <<>> /\ ~Contains(s, Separators[j])

RECURSIVE SplitTextFrom(_, _, _, _)
RECURSIVE SplitLoop(_, _, _, _, _, _, _)
\* the loop of _split_text over the pieces: short pieces are collected and
\* merged, a piece of chunk_size or more is split by the separators that are
\* left (next = 0: none is left, the piece is kept as it is)
SplitLoop(splits, i, good, final, next, cs, ov) ==
    LET merged == IF good = <<>> THEN <<>> ELSE MergeSplits(good, <<>>, cs, ov)
    IN  IF i > Len(splits) THEN final \o merged
        ELSE IF Len(splits[i]) < cs
             THEN SplitLoop(splits, i + 1, Append(good, splits[i]), final, next, cs, ov)
             ELSE SplitLoop(splits, i + 1, <<>>,
                            final \o merged \o
                              (IF next = 0 THEN <<splits[i]>>
                               ELSE SplitTextFrom(splits[i], next, cs, ov)),
                            next, cs, ov)

\* RecursiveCharacterTextSplitter._split_text(text, separators[k:])
SplitTextFrom(s, k, cs, ov) ==
    LET i == PickSeparator(s, k)
        next == IF Separators[i] = <<>> \/ i = Len(Separators) THEN 0 ELSE i + 1
    IN  SplitLoop(SplitWithRegex(s, Separators[i]), 1, <<>>, <<>>, next, cs, ov)

\* self.default_splitter.split_text(text)
SplitText(s, cs, ov) == SplitTextFrom(s, 1, cs, ov)

(***************************************************************************)
(* String literals of smart_chunking.py                                    *)
(***************************************************************************)
PageMarker == <<"-", "-", "-", " ", "P", "a", "g", "e", " ">>

SlideMarker == <<"-", "-", "-", " ", "S", "l", "i", "d", "e", " ">>

\* ' ---', which ends the label of a marker
LabelEnd == <<" ", "-", "-", "-">>

\* '---\n', after which the body of a page or slide starts
BodyStart == <<"-", "-", "-", "\n">>

Newline == <<"\n">>

Dot == <<".">>

PageTag == <<"p", "a", "g", "e">>

SlideTag == <<"s", "l", "i", "d", "e">>

PageIdPrefix == <<"p", "a", "g", "e", "_">>

SlideIdPrefix == <<"s", "l", "i", "d", "e", "_">>

ChunkInfix == <<"_", "c", "h", "u", "n", "k", "_">>

DocxIdPrefix == <<"d", "o", "c", "x", "_", "c", "h", "u", "n", "k", "_">>

TxtIdPrefix == <<"t", "x", "t", "_", "c", "h", "u", "n", "k", "_">>

DefaultIdPrefix == <<"c", "h", "u", "n", "k", "_">>

Pdf == <<"p", "d", "f">>

Docx == <<"d", "o", "c", "x">>

Pptx == <<"p", "p", "t", "x">>

Txt == <<"t", "x", "t">>

Unknown == <<"u", "n", "k", "n", "o", "w", "n">>

\* what a call leaves behind: the list it returns, or an exception
Return(cs) == [raised |-> FALSE, chunks |-> cs]

Raise == [raised |-> TRUE, chunks |-> <<>>]

RECURSIVE Flatten(_)
\* the concatenation of a list of lists
Flatten(ls) == IF ls = <<>> THEN <<>> ELSE ls[1] \o Flatten(Tail(ls))

\* the last element of a list
Last(s) == s[Len(s)]

(***************************************************************************)
(* _chunk_pdf                                                              *)
(***************************************************************************)
\* page_content.split(' ---')[0], the text int() is given for a page i > 0
PageLabel(page_content) == Split(page_content, LabelEnd)[1]

\* page_content.split('---\n', 1)[-1] if '---\n' in page_content else page_content
ActualContent(page_content) ==
    IF Contains(page_content, BodyStart)
    THEN Last(SplitOnce(page_content, BodyStart))
    ELSE page_content

\* the loop without its `continue`: no page is skipped
PageNeverSkipped(page_content) == FALSE

\* the loop body is skipped for a page that strips to ""
PageSkipped(page_content) == Strip(page_content) = <<>>

\* int(...) raises ValueError for page i (0-based) of pages
LabelRaises(pages, i) ==
    /\ ~PageSkipped(pages[i + 1])
    /\ i # 0
    /\ ~IntOk(PageLabel(pages[i + 1]))

\* page_num = i if i == 0 else int(page_content.split(' ---')[0])
LabelNum(pages, i) == IF i = 0 THEN 0 ELSE IntOf(PageLabel(pages[i + 1]))

\* the comprehension without its `if`: every image on every chunk
ImagesOfUnfiltered(imgs, tag, num) == OrEmpty(imgs)

\* [img for img in (images or []) if f"<tag>{num}" in img[0]]
ImagesOf(imgs, tag, num) ==
    SelectSeq(OrEmpty(imgs), LAMBDA img : Contains(img[1], tag \o IntStr(num)))

PdfChunk(content, id, page_num, n_pages, path, imgs, lnks) ==
    [page_content |-> content,
     source |-> path,
     page |-> page_num,
     chunk_id |-> id,
     document_type |-> Pdf,
     total_pages |-> n_pages - 1,
     images |-> ImagesOf(imgs, PageTag, page_num),
     links |-> OrEmpty(lnks)]

\* the chunks one iteration of the loop over pages appends
PdfPageChunks(pages, i, path, imgs, lnks, cs, ov) ==
    IF PageSkipped(pages[i + 1]) THEN <<>>
    ELSE LET page_num == LabelNum(pages, i)
             actual_content == ActualContent(pages[i + 1])
             page_chunks == SplitText(actual_content, cs, ov)
         IN  IF Len(actual_content) > cs
             THEN [j \in 1..Len(page_chunks) |->
                     PdfChunk(page_chunks[j],
                              PageIdPrefix \o IntStr(page_num) \o ChunkInfix \o IntStr(j - 1),
                              page_num, Len(pages), path, imgs, lnks)]
             ELSE <<PdfChunk(actual_content, PageIdPrefix \o IntStr(page_num),
                             page_num, Len(pages), path, imgs, lnks)>>

ChunkPdf(txt, path, imgs, lnks, cs, ov) ==
    LET pages == Split(txt, PageMarker)
    IN  IF \E i \in 0..(Len(pages) - 1) : LabelRaises(pages, i) THEN Raise
        ELSE Return(Flatten([k \in 1..Len(pages) |->
                                PdfPageChunks(pages, k - 1, path, imgs, lnks, cs, ov)]))

(***************************************************************************)
(* _chunk_docx                                                             *)
(***************************************************************************)
\* the metadata without the links that were passed
DocxChunkNoLinks(content, k, path, imgs, lnks) ==
    [page_content |-> Strip(content),
     source |-> path,
     chunk_id |-> DocxIdPrefix \o IntStr(k),
     document_type |-> Docx,
     images |-> OrEmpty(imgs),
     links |-> <<>>]

DocxChunk(content, k, path, imgs, lnks) ==
    [page_content |-> Strip(content),
     source |-> path,
     chunk_id |-> DocxIdPrefix \o IntStr(k),
     document_type |-> Docx,
     images |-> OrEmpty(imgs),
     links |-> OrEmpty(lnks)]

\* [p.strip() for p in text.split('\n') if p.strip()]
Paragraphs(txt) ==
    LET ps == Split(txt, Newline)
    IN  NonEmpty([i \in 1..Len(ps) |-> Strip(ps[i])])

\* the flush taken already when the paragraph fills the buffer to the limit
DocxFlushAtLimit(current_chunk, para, cs) ==
    Len(current_chunk) + Len(para) >= cs /\ current_chunk # <<>>

\* the buffer is flushed before para is added
DocxFlush(current_chunk, para, cs) ==
    Len(current_chunk) + Len(para) > cs /\ current_chunk # <<>>

RECURSIVE DocxLoop(_, _, _, _, _, _, _, _, _)
DocxLoop(paragraphs, i, current_chunk, chunk_id, out, path, imgs, lnks, cs) ==
    IF i > Len(paragraphs)
    THEN IF Strip(current_chunk) # <<>>
         THEN Append(out, DocxChunk(current_chunk, chunk_id, path, imgs, lnks))
         ELSE out
    ELSE IF DocxFlush(current_chunk, paragraphs[i], cs)
         THEN DocxLoop(paragraphs, i + 1, paragraphs[i] \o Newline, chunk_id + 1,
                       Append(out, DocxChunk(current_chunk, chunk_id, path, imgs, lnks)),
                       path, imgs, lnks, cs)
         ELSE DocxLoop(paragraphs, i + 1, current_chunk \o paragraphs[i] \o Newline,
                       chunk_id, out, path, imgs, lnks, cs)

ChunkDocx(txt, path, imgs, lnks, cs, ov) ==
    Return(DocxLoop(Paragraphs(txt), 1, <<>>, 0, <<>>, path, imgs, lnks, cs))

(***************************************************************************)
(* _chunk_pptx                                                             *)
(***************************************************************************)
PptxChunk(content, slide_num, n_slides, path, imgs, lnks) ==
    [page_content |-> Strip(content),
     source |-> path,
     slide |-> slide_num,
     chunk_id |-> SlideIdPrefix \o IntStr(slide_num),
     document_type |-> Pptx,
     total_slides |-> n_slides - 1,
     images |-> ImagesOf(imgs, SlideTag, slide_num),
     links |-> OrEmpty(lnks)]

\* the chunks one iteration of the loop over slides appends
PptxSlideChunks(slides, i, path, imgs, lnks) ==
    IF PageSkipped(slides[i + 1]) THEN <<>>
    ELSE LET actual_content == ActualContent(slides[i + 1])
         IN  IF Strip(actual_content) # <<>>
             THEN <<PptxChunk(actual_content, LabelNum(slides, i), Len(slides),
                              path, imgs, lnks)>>
             ELSE <<>>

ChunkPptx(txt, path, imgs, lnks, cs, ov) ==
    LET slides == Split(txt, SlideMarker)
    IN  IF \E i \in 0..(Len(slides) - 1) : LabelRaises(slides, i) THEN Raise
        ELSE Return(Flatten([k \in 1..Len(slides) |->
                                PptxSlideChunks(slides, k - 1, path, imgs, lnks)]))

(***************************************************************************)
(* _chunk_txt and _chunk_default                                           *)
(***************************************************************************)
TxtChunk(content, i, n, path) ==
    [page_content |-> content,
     source |-> path,
     chunk_id |-> TxtIdPrefix \o IntStr(i),
     document_type |-> Txt,
     total_chunks |-> n]

ChunkTxt(txt, path, cs, ov) ==
    LET text_chunks == SplitText(txt, cs, ov)
    IN  Return([j \in 1..Len(text_chunks) |->
                   TxtChunk(text_chunks[j], j - 1, Len(text_chunks), path)])

\* the chunks numbered from 1 instead of 0
DefaultChunkFromOne(content, i, n, path, imgs, lnks) ==
    [page_content |-> content,
     source |-> path,
     chunk_id |-> DefaultIdPrefix \o IntStr(i + 1),
     document_type |-> Unknown,
     total_chunks |-> n,
     images |-> OrEmpty(imgs),
     links |-> OrEmpty(lnks)]

DefaultChunk(content, i, n, path, imgs, lnks) ==
    [page_content |-> content,
     source |-> path,
     chunk_id |-> DefaultIdPrefix \o IntStr(i),
     document_type |-> Unknown,
     total_chunks |-> n,
     images |-> OrEmpty(imgs),
     links |-> OrEmpty(lnks)]

ChunkDefault(txt, path, imgs, lnks, cs, ov) ==
    LET text_chunks == SplitText(txt, cs, ov)
    IN  Return([j \in 1..Len(text_chunks) |->
                   DefaultChunk(text_chunks[j], j - 1, Len(text_chunks), path, imgs, lnks)])

(***************************************************************************)
(* chunk_document                                                          *)
(***************************************************************************)
\* file_path.lower().split('.')[-1]
FileExt(path) == Last(Split(Lower(path), Dot))

(***************************************************************************)
(* extract_headers_and_structure                                           *)
(***************************************************************************)
\* str.isupper(): a cased character, and no lower-case one
IsUpper(s) ==
    /\ \E i \in 1..Len(s) : s[i] \in UpperSet
    /\ \A i \in 1..Len(s) : s[i] \notin LowerSet

\* re.match(r'^#+\s', line)
MatchesMarkdownHeader(line) ==
    \E k \in 1..(Len(line) - 1) :
        /\ \A j \in 1..k : line[j] = "#"
        /\ IsSpace(line[k + 1])

\* the positions where a match of r'^\d+\.?\s+' can end
NumberedPrefixEnds(line) ==
    {e \in 2..Len(line) :
        \E d \in 1..(e - 1) :
            /\ \A j \in 1..d : line[j] \in DigitSet
            /\ \/ \A j \in (d + 1)..e : IsSpace(line[j])
               \/ /\ d + 1 < e
                  /\ line[d + 1] = "."
                  /\ \A j \in (d + 2)..e : IsSpace(line[j])}

\* re.match(r'^\d+\.?\s+', line)
MatchesNumbered(line) == NumberedPrefixEnds(line) # {}

\* re.match(r'^\d+\.?\s+[A-Z]', line)
MatchesNumberedSection(line) ==
    \E e \in NumberedPrefixEnds(line) : e < Len(line) /\ line[e + 1] \in UpperSet

\* re.match(r'^[\*\-\+]\s+', line)
MatchesBullet(line) ==
    Len(line) >= 2 /\ line[1] \in {"*", "-", "+"} /\ IsSpace(line[2])

\* line.startswith(('*', '-', '+'))
StartsWithBullet(line) == Len(line) >= 1 /\ line[1] \in {"*", "-", "+"}

\* the condition under which a line is appended to structure['headers']
IsHeader(line) ==
    /\ line # <<>>
    /\ IsUpper(line) \/ MatchesMarkdownHeader(line) \/ MatchesNumberedSection(line)

\* the condition under which a line is appended to structure['lists']
IsListItem(line) == MatchesBullet(line) \/ MatchesNumbered(line)

\* the level estimated with the upper-case test taken before the '#' prefixes
EstimateHeaderLevelUpperFirst(line) ==
    IF IsUpper(line) THEN 1
    ELSE IF StartsWith(line, <<"#", "#", "#">>) THEN 3
    ELSE IF StartsWith(line, <<"#", "#">>) THEN 2
    ELSE IF StartsWith(line, <<"#">>) THEN 1
    ELSE IF MatchesNumbered(line) THEN 2
    ELSE 3

\* _estimate_header_level
EstimateHeaderLevel(line) ==
    IF StartsWith(line, <<"#", "#", "#">>) THEN 3
    ELSE IF StartsWith(line, <<"#", "#">>) THEN 2
    ELSE IF StartsWith(line, <<"#">>) THEN 1
    ELSE IF IsUpper(line) THEN 1
    ELSE IF MatchesNumbered(line) THEN 2
    ELSE 3

HeaderEntry(line, i) ==
    [text |-> line, line_number |-> i, level |-> EstimateHeaderLevel(line)]

ListEntry(line, i) ==
    [text |-> line, line_number |-> i,
     type |-> IF StartsWithBullet(line) THEN "bullet" ELSE "numbered"]

\* the 1-based positions of the lines that are appended to structure['headers']
HeaderLines(lines) ==
    SelectSeq([i \in 1..Len(lines) |-> i], LAMBDA i : IsHeader(Strip(lines[i])))

\* the 1-based positions of the lines that are appended to structure['lists']
ListLines(lines) ==
    SelectSeq([i \in 1..Len(lines) |-> i], LAMBDA i : IsListItem(Strip(lines[i])))

ExtractHeadersAndStructure(txt) ==
    LET lines == Split(txt, Newline)
        hs == HeaderLines(lines)
        ls == ListLines(lines)
    IN  [headers |-> [k \in 1..Len(hs) |-> HeaderEntry(Strip(lines[hs[k]]), hs[k] - 1)],
         lists |-> [k \in 1..Len(ls) |-> ListEntry(Strip(lines[ls[k]]), ls[k] - 1)],
         tables |-> <<>>,
         sections |-> <<>>]

(***************************************************************************)
(* Image names, as data_extraction.py generates them                       *)
(***************************************************************************)
\* os.path.splitext(os.path.basename(path))[0] of the documents below
BaseName == <<"d", "o", "c">>

\* extract_from_pdf: f"{base}_page{i+1}_img{img_index+1}.{image_ext}"
PdfImageName(m, k) ==
    BaseName \o <<"_", "p", "a", "g", "e">> \o IntStr(m) \o <<"_", "i", "m", "g">> \o IntStr(k) \o <<".", "p", "n", "g">>

\* extract_from_pptx: f"{base}_slide{i+1}_img"
PptxImageName(m) == BaseName \o <<"_", "s", "l", "i", "d", "e">> \o IntStr(m) \o <<"_", "i", "m", "g">>

\* extract_from_docx: f"{base}_img{img_count+1}"
DocxImageName(k) == BaseName \o <<"_", "i", "m", "g">> \o IntStr(k)

(***************************************************************************)
(* The calls that are explored                                             *)
(***************************************************************************)
\* pages or slides that follow the leading text of a document
MaxPages == 2

\* lines of a document without markers
MaxLines == 2

DefaultChunkSize == 1000

DefaultChunkOverlap == 200

\* (chunk_size, chunk_overlap): one small enough to split the bodies below,
\* and the defaults
Configs == {<<5, 2>>, <<DefaultChunkSize, DefaultChunkOverlap>>}

\* all lists of at most n elements of S
SeqsUpTo(S, n) == UNION {[1..k -> S] : k \in 0..n}

\* the text of a page or slide after its marker line
Bodies == {<<>>, <<"a">>, <<"a", "b", " ", "c", "d", " ", "e", "f">>}

\* the text before the first marker
Leads == {<<>>, <<"a">>, <<"x", "-", "-", "-", "\n", "y">>}

\* what stands between the marker and the body: a label that is a number,
\* a label that is none, and a marker that is not closed at all
LabelLines == {<<"0", " ", "-", "-", "-", "\n">>, <<"1", " ", "-", "-", "-", "\n">>, <<"z", " ", "-", "-", "-", "\n">>, <<>>}

\* one page or slide: marker, label line, body
Sections(marker) == {marker \o l \o b : l \in LabelLines, b \in Bodies}

MarkedTexts(marker) ==
    {lead \o Flatten(ps) : lead \in Leads, ps \in SeqsUpTo(Sections(marker), MaxPages)}

PlainLines == {<<"a">>, <<"a", "b", " ", "c", "d", " ", "e", "f">>, <<"1", ".", " ", "A", "b">>, <<"-", " ", "X">>, <<"#", "#", " ", "b">>, <<"2", " ", "c">>, <<" ">>}

PlainTexts == {Join(ls, Newline) : ls \in SeqsUpTo(PlainLines, MaxLines)}

PdfPaths == {<<"a", ".", "p", "d", "f">>}

PptxPaths == {<<"s", ".", "p", "p", "t", "x">>}

PlainPaths == {<<"d", ".", "d", "o", "c", "x">>, <<"t", ".", "t", "x", "t">>, <<"r", ".", "m", "d">>, <<"B", ".", "P", "D", "F">>}

PdfImages == <<<<PdfImageName(1, 1), <<"t">>>>, <<PdfImageName(12, 1), <<>>>>, <<PdfImageName(2, 1), <<"t">>>>>>

PptxImages == <<<<PptxImageName(1), <<"t">>>>, <<PptxImageName(12), <<>>>>, <<PptxImageName(2), <<"t">>>>>>

DocxImages == <<<<DocxImageName(1), <<"t">>>>>>

Links == <<<<"u">>, <<"v">>>>

\* (images, links) of a call
Attachments(imgs) ==
    {<<None, None>>, <<Given(imgs), Given(Links)>>, <<None, Given(Links)>>}

Init ==
    /\ \/ /\ file_path \in PdfPaths
          /\ text \in MarkedTexts(PageMarker)
          /\ \E a \in Attachments(PdfImages) : images = a[1] /\ links = a[2]
       \/ /\ file_path \in PptxPaths
          /\ text \in MarkedTexts(SlideMarker)
          /\ \E a \in Attachments(PptxImages) : images = a[1] /\ links = a[2]
       \/ /\ file_path \in PlainPaths
          /\ text \in PlainTexts
          /\ \E a \in Attachments(DocxImages) : images = a[1] /\ links = a[2]
    /\ \E c \in Configs : chunk_size = c[1] /\ chunk_overlap = c[2]
    /\ pc = "start"
    /\ chunks = <<>>
    /\ raised = FALSE
    /\ structure = Nothing

\* the call ends: with the list returned, or with the exception
Finish(result) ==
    /\ pc' = "chunked"
    /\ chunks' = result.chunks
    /\ raised' = result.raised
    /\ UNCHANGED <<text, file_path, images, links, chunk_size, chunk_overlap, structure>>

\* chunk_document, file_ext == 'pdf'
CallChunkPdf ==
    /\ pc = "start"
    /\ FileExt(file_path) = Pdf
    /\ Finish(ChunkPdf(text, file_path, images, links, chunk_size, chunk_overlap))

\* chunk_document, file_ext == 'docx'
CallChunkDocx ==
    /\ pc = "start"
    /\ FileExt(file_path) = Docx
    /\ Finish(ChunkDocx(text, file_path, images, links, chunk_size, chunk_overlap))

\* chunk_document, file_ext == 'pptx'
CallChunkPptx ==
    /\ pc = "start"
    /\ FileExt(file_path) = Pptx
    /\ Finish(ChunkPptx(text, file_path, images, links, chunk_size, chunk_overlap))

\* chunk_document, file_ext == 'txt'
CallChunkTxt ==
    /\ pc = "start"
    /\ FileExt(file_path) = Txt
    /\ Finish(ChunkTxt(text, file_path, chunk_size, chunk_overlap))

\* chunk_document, any other file_ext
CallChunkDefault ==
    /\ pc = "start"
    /\ FileExt(file_path) \notin {Pdf, Docx, Pptx, Txt}
    /\ Finish(ChunkDefault(text, file_path, images, links, chunk_size, chunk_overlap))

\* extract_headers_and_structure(text)
CallExtractHeadersAndStructure ==
    /\ pc = "start"
    /\ pc' = "analyzed"
    /\ structure' = ExtractHeadersAndStructure(text)
    /\ UNCHANGED <<text, file_path, images, links, chunk_size, chunk_overlap, chunks, raised>>

Next ==
    \/ CallChunkPdf
    \/ CallChunkDocx
    \/ CallChunkPptx
    \/ CallChunkTxt
    \/ CallChunkDefault
    \/ CallExtractHeadersAndStructure

Spec == Init /\ [][Next]_vars

(***************************************************************************)
(* SmartDocumentChunker.__init__                                           *)
(*                                                                         *)
(* __init__ stores chunk_size and chunk_overlap and checks nothing itself; *)
(* the only checks are those of the splitter it constructs.  Every release *)
(* of the splitter raises ValueError for chunk_overlap > chunk_size; the   *)
(* later ones (strict) also raise for chunk_size <= 0 and for              *)
(* chunk_overlap < 0.  Which release is installed is not fixed by the      *)
(* repository, so both are outcomes of a construction.                     *)
(***************************************************************************)
\* RecursiveCharacterTextSplitter(chunk_size=..., chunk_overlap=...) raises
SplitterRejects(cs, ov, strict) ==
    \/ ov > cs
    \/ strict /\ (cs <= 0 \/ ov < 0)

\* SmartDocumentChunker(chunk_size, chunk_overlap) raises
InitRaises(cs, ov, strict) == SplitterRejects(cs, ov, strict)

\* (chunk_size, chunk_overlap) passed to the constructor: valid, overlap
\* equal to the size, overlap above the size, a size that is not positive.
\* Each of them has the same outcome under every release of the splitter
\* ((0, 0), which only the strict releases reject, is not among them).
ConstructorArgs ==
    {<<5, 2>>, <<DefaultChunkSize, DefaultChunkOverlap>>,
     <<5, 5>>, <<5, 7>>, <<0, 1>>, <<-1, 0>>}

\* (file_path, text) of the calls made on a chunker that was constructed
ConstructedCalls ==
    {<<<<"a", ".", "p", "d", "f">>, <<>>>>,
     <<<<"a", ".", "p", "d", "f">>, <<"-", "-", "-", " ", "P", "a", "g", "e", " ", "1", " ", "-", "-", "-", "\n", "a", "b", " ", "c", "d", " ", "e", "f">>>>,
     <<<<"s", ".", "p", "p", "t", "x">>, <<"-", "-", "-", " ", "S", "l", "i", "d", "e", " ", "1", " ", "-", "-", "-", "\n", "a", "b", " ", "c", "d", " ", "e", "f">>>>}
    \cup {<<path, txt>> : path \in PlainPaths, txt \in {<<>>, <<"a", "b", " ", "c", "d", " ", "e", "f">>}}

\* before the constructor runs: its arguments, and the call that would follow
InitConstruct ==
    /\ \E c \in ConstructedCalls : file_path = c[1] /\ text = c[2]
    /\ \E c \in ConstructorArgs : chunk_size = c[1] /\ chunk_overlap = c[2]
    /\ images = None
    /\ links = None
    /\ pc = "new"
    /\ chunks = <<>>
    /\ raised = FALSE
    /\ structure = Nothing

\* SmartDocumentChunker(chunk_size, chunk_overlap): the object exists
\* ("start"), or the constructor raised and there is none ("rejected")
Construct ==
    /\ pc = "new"
    /\ \E strict \in BOOLEAN :
          pc' = IF InitRaises(chunk_size, chunk_overlap, strict) THEN "rejected" ELSE "start"
    /\ UNCHANGED <<text, file_path, images, links, chunk_size, chunk_overlap,
                   chunks, raised, structure>>

NextConstruct ==
    \/ Construct
    \/ CallChunkPdf
    \/ CallChunkDocx
    \/ CallChunkPptx
    \/ CallChunkTxt
    \/ CallChunkDefault
    \/ CallExtractHeadersAndStructure

SpecConstruct == InitConstruct /\ [][NextConstruct]_vars

(***************************************************************************)
(* docx documents of several paragraphs                                    *)
(***************************************************************************)
\* lines of a docx text
MaxParas == 3

\* a line: short, filling the buffer to the limit after "a", to be trimmed,
\* longer than the small chunk_size, blank
DocxLines == {<<"a">>, <<"a", "b", "c">>, <<" ", "b", " ">>, <<"a", "b", " ", "c", "d", " ", "e", "f">>, <<" ">>}

DocxTexts == {Join(ls, Newline) : ls \in SeqsUpTo(DocxLines, MaxParas)}

InitDocx ==
    /\ file_path = <<"d", ".", "d", "o", "c", "x">>
    /\ text \in DocxTexts
    /\ \E a \in Attachments(DocxImages) : images = a[1] /\ links = a[2]
    /\ \E c \in Configs : chunk_size = c[1] /\ chunk_overlap = c[2]
    /\ pc = "start"
    /\ chunks = <<>>
    /\ raised = FALSE
    /\ structure = Nothing

NextDocx == CallChunkDocx

SpecDocx == InitDocx /\ [][NextDocx]_vars

(***************************************************************************)
(* texts of header-like lines                                              *)
(***************************************************************************)
\* lines of an analyzed text
MaxHeaderLines == 2

\* markdown headers of one to four '#', with and without the blank after the
\* run, upper-case lines, numbered lines with and without the dot, with an
\* upper-case and a lower-case first letter, and plain lines
HeaderTextLines ==
    {<<"#", " ", "a">>, <<"#", "#", " ", "b">>, <<"#", "#", "#", " ", "C">>, <<"#", "#", "#", "#", " ", "d">>, <<"#", "X">>, <<"#", "x">>, <<"A", "B">>, <<"1", ".", " ", "A", "b">>, <<"2", " ", "C", "d">>,
     <<"2", " ", "c">>, <<"3", ".", " ", "b">>, <<"4", ".", " ", "E", "F">>, <<"a">>}

HeaderTexts == {Join(ls, Newline) : ls \in SeqsUpTo(HeaderTextLines, MaxHeaderLines)}

InitHeaders ==
    /\ file_path = <<"r", ".", "m", "d">>
    /\ text \in HeaderTexts
    /\ images = None
    /\ links = None
    /\ chunk_size = DefaultChunkSize
    /\ chunk_overlap = DefaultChunkOverlap
    /\ pc = "start"
    /\ chunks = <<>>
    /\ raised = FALSE
    /\ structure = Nothing

NextHeaders == CallExtractHeadersAndStructure

SpecHeaders == InitHeaders /\ [][NextHeaders]_vars

(***************************************************************************)
(* Properties                                                              *)
(***************************************************************************)
\* chunk_document has returned a list
Returned == pc = "chunked" /\ ~raised

Ext == FileExt(file_path)

\* the marker the chunker of this file type splits the text on
MarkerOf(ext) == IF ext = Pptx THEN SlideMarker ELSE PageMarker

\* the pieces of the text between the markers, for a pdf or pptx call
Segments == Split(text, MarkerOf(Ext))

\* the label the chunks of a pdf or pptx document carry
LabelOf(c) == IF c.document_type = Pptx THEN c.slide ELSE c.page

\* C1: the chunk_id values of the chunks one chunk_document call returns are
\* pairwise distinct, for every text, file type and configuration.
C1_ChunkIdsDistinct ==
    Returned =>
        \A i, j \in 1..Len(chunks) :
            i # j => chunks[i].chunk_id # chunks[j].chunk_id

\* C2: no chunk that chunk_document returns has content that is empty or
\* consists of whitespace only; a pdf page with an empty body yields no chunk.
C2_NoEmptyChunks ==
    Returned =>
        \A i \in 1..Len(chunks) : Strip(chunks[i].page_content) # <<>>

\* a string that holds a boundary character, at which it could be divided
HasBoundary(s) == \E k \in 1..Len(s) : IsSpace(s[k])

\* C3: every chunk has len(content) <= chunk_size, unless it is one unit
\* without a boundary character; a pptx slide or pdf page longer than
\* chunk_size with word boundaries comes out as chunks of at most chunk_size.
C3_SizeBound ==
    Returned =>
        \A i \in 1..Len(chunks) :
            \/ Len(chunks[i].page_content) <= chunk_size
            \/ ~HasBoundary(chunks[i].page_content)

\* the segments of a pdf or pptx text, as 0-based positions, whose label
\* int() cannot parse
UnparsableSegments ==
    {i \in 0..(Len(Segments) - 1) : LabelRaises(Segments, i)}

\* C4: a page or slide marker whose label is no integer does not make
\* chunk_document raise: the segment is labelled with its sequential ordinal
\* and its chunks, and those of the later segments, are emitted.
C4_MalformedLabelRecovered ==
    (pc = "chunked" /\ Ext \in {Pdf, Pptx}) =>
        /\ ~raised
        /\ \A i \in UnparsableSegments :
              Strip(ActualContent(Segments[i + 1])) # <<>> =>
                  \E k \in 1..Len(chunks) : LabelOf(chunks[k]) = i

\* the positions of the text that lie in a marker line: from a marker to the
\* end of its line
InMarkerLine(p) ==
    \E m \in 1..p :
        /\ MatchAt(text, PageMarker, m)
        /\ \A k \in m..(p - 1) : text[k] # "\n"

\* the characters that occur in the content of some chunk
EmittedChars == UNION {{c.page_content[k] : k \in 1..Len(c.page_content)} :
                          c \in {chunks[i] : i \in 1..Len(chunks)}}

\* C5: segmentation of a pdf text loses no content: every character that is
\* not whitespace and lies outside the marker lines, the text before the
\* first marker included, is in the content of some chunk.
C5_NoContentLost ==
    (Returned /\ Ext = Pdf) =>
        \A p \in 1..Len(text) :
            (~IsSpace(text[p]) /\ ~InMarkerLine(p)) => text[p] \in EmittedChars

\* the pages and slides the images of the explored calls were generated for
ImagePages == {1, 2, 12}

\* the name data_extraction.py gives the first image of page or slide m
GeneratedName(ext, m) == IF ext = Pptx THEN PptxImageName(m) ELSE PdfImageName(m, 1)

\* the image with this name was passed to the call
Passed(name) == \E j \in 1..Len(OrEmpty(images)) : OrEmpty(images)[j][1] = name

\* the chunk carries the image with this name
Carries(c, name) == \E j \in 1..Len(c.images) : c.images[j][1] = name

\* C6, as claimed: an image generated for page (slide) m is in the images of
\* a chunk labelled n exactly when n = m.
C6_ImagesOfOwnPageOnly ==
    (Returned /\ Ext \in {Pdf, Pptx}) =>
        \A i \in 1..Len(chunks) : \A m \in ImagePages :
            Passed(GeneratedName(Ext, m)) =>
                (Carries(chunks[i], GeneratedName(Ext, m)) <=> LabelOf(chunks[i]) = m)

\* C6, amended: an image generated for page (slide) m is in the images of a
\* chunk labelled n exactly when its name contains "page<n>" ("slide<n>"),
\* that is when the decimal digits of n are the first digits of m: the
\* chunks of page m carry it, and so do those of page 1 when m = 12.
C6_ImagesOfPagePrefix ==
    (Returned /\ Ext \in {Pdf, Pptx}) =>
        \A i \in 1..Len(chunks) : \A m \in ImagePages :
            Passed(GeneratedName(Ext, m)) =>
                (Carries(chunks[i], GeneratedName(Ext, m))
                    <=> StartsWith(IntStr(m), IntStr(LabelOf(chunks[i]))))

\* a chunk of page 1 carries the image of page 12 and not that of page 2
C6_Witness ==
    /\ Returned
    /\ Ext = Pdf
    /\ \E i \in 1..Len(chunks) :
          /\ chunks[i].page = 1
          /\ Strip(chunks[i].page_content) # <<>>
          /\ Carries(chunks[i], PdfImageName(1, 1))
          /\ Carries(chunks[i], PdfImageName(12, 1))
          /\ Passed(PdfImageName(2, 1))
          /\ ~Carries(chunks[i], PdfImageName(2, 1))

\* C7: chunk_document called with the empty string returns an empty list
\* and raises nothing, for every file type, also without images and links.
C7_EmptyTextNoChunks ==
    (pc = "chunked" /\ text = <<>>) => (~raised /\ chunks = <<>>)

\* the empty string was chunked as a pdf, images and links being None
C7_Witness ==
    /\ pc = "chunked"
    /\ text = <<>>
    /\ Ext = Pdf
    /\ images = None
    /\ links = None
    /\ chunks = <<>>

\* C8: no line is reported both as a header and as a list item by
\* extract_headers_and_structure.
C8_HeaderOrListNotBoth ==
    pc = "analyzed" =>
        \A h \in 1..Len(structure.headers) : \A l \in 1..Len(structure.lists) :
            structure.headers[h].line_number # structure.lists[l].line_number

\* the pieces the splitter yields for the text of the call
Pieces == SplitText(text, chunk_size, chunk_overlap)

\* the chunks are the pieces in order, numbered from 0 after the prefix
\* given for the chunk's document_type, each with the number of chunks
ChunksArePieces(txt_prefix, unknown_prefix) ==
    /\ Len(chunks) = Len(Pieces)
    /\ \A i \in 1..Len(chunks) :
          /\ chunks[i].page_content = Pieces[i]
          /\ chunks[i].document_type = (IF Ext = Txt THEN Txt ELSE Unknown)
          /\ chunks[i].chunk_id =
                (IF chunks[i].document_type = Txt THEN txt_prefix ELSE unknown_prefix)
                    \o IntStr(i - 1)
          /\ chunks[i].total_chunks = Len(chunks)

\* C9, as claimed: for txt and unknown the chunks are the n pieces of the
\* splitter in order, the i-th with chunk_id "<type>_chunk_<i>", <type> its
\* document_type, and total_chunks = n.
C9_TypedChunkIds ==
    (Returned /\ Ext \notin {Pdf, Docx, Pptx}) =>
        ChunksArePieces(Txt \o ChunkInfix, Unknown \o ChunkInfix)

\* C9, amended: the same, with chunk_id "txt_chunk_<i>" for txt and
\* "chunk_<i>", without a type, for unknown.
C9_ChunkIds ==
    (Returned /\ Ext \notin {Pdf, Docx, Pptx}) =>
        ChunksArePieces(Txt \o ChunkInfix, Tail(ChunkInfix))

\* a text of unknown type came out as more than one chunk
C9_Witness ==
    /\ Returned
    /\ Ext \notin {Pdf, Docx, Pptx, Txt}
    /\ Len(chunks) >= 2
    /\ chunks[2].document_type = Unknown

\* C10: every chunk of a pdf, docx, pptx or unknown document carries the
\* links passed to the call, whole and in order, whatever its page or slide;
\* with links (images) None it carries the empty list, and the absence
\* raises no error: only a label that is no integer does.
C10_LinksOnEveryChunk ==
    pc = "chunked" =>
        /\ \A i \in 1..Len(chunks) :
              chunks[i].document_type # Txt =>
                  /\ chunks[i].links = (IF links = None THEN <<>> ELSE links.value)
                  /\ images = None => chunks[i].images = <<>>
        /\ raised => (Ext \in {Pdf, Pptx} /\ UnparsableSegments # {})

\* chunks of two different pages carry the two links, images being None
C10_Witness ==
    /\ Returned
    /\ images = None
    /\ links = Given(Links)
    /\ \E i, j \in 1..Len(chunks) :
          /\ chunks[i].document_type = Pdf
          /\ chunks[i].page # chunks[j].page
          /\ chunks[i].links = Links
          /\ chunks[j].links = Links

\* the configuration the spec calls invalid
InvalidConfig == chunk_overlap >= chunk_size \/ chunk_size <= 0

\* C11: an invalid configuration, overlap >= chunk_size (the equal case
\* included) or chunk_size <= 0, is an error at construction: no chunker
\* with it exists, and chunk_document is not reached with it.
C11_InvalidConfigRejected ==
    (pc # "new" /\ InvalidConfig) => pc = "rejected"

\* the paragraphs of the i-th chunk
ChunkParas(i) == Split(chunks[i].page_content, Newline)

RECURSIVE BufferLen(_, _)
\* the length of the buffer that holds the first k of the paragraphs ps,
\* each followed by a line break
BufferLen(ps, k) == IF k = 0 THEN 0 ELSE BufferLen(ps, k - 1) + Len(ps[k]) + 1

\* C12: the docx chunks partition the non-empty, trimmed lines of the text:
\* each chunk is the join by line breaks of a non-empty run of consecutive
\* paragraphs, the chunks in order give the paragraphs in order, each once;
\* a paragraph starts a new chunk exactly when the buffer is not empty and
\* len(buffer) + len(paragraph) > chunk_size; the ids are docx_chunk_0, 1, ...
C12_DocxPartition ==
    (Returned /\ Ext = Docx) =>
        /\ Flatten([i \in 1..Len(chunks) |-> ChunkParas(i)]) = Paragraphs(text)
        /\ \A i \in 1..Len(chunks) :
              /\ chunks[i].chunk_id = Docx \o ChunkInfix \o IntStr(i - 1)
              /\ \A k \in 1..Len(ChunkParas(i)) :
                    /\ ChunkParas(i)[k] # <<>>
                    /\ k > 1 =>
                          BufferLen(ChunkParas(i), k - 1) + Len(ChunkParas(i)[k])
                              <= chunk_size
                    /\ (k = 1 /\ i > 1) =>
                          BufferLen(ChunkParas(i - 1), Len(ChunkParas(i - 1)))
                              + Len(ChunkParas(i)[1]) > chunk_size

\* two paragraphs were collected in the first chunk and the third one, one
\* that had to be trimmed, made the buffer flush
C12_Witness ==
    /\ Returned
    /\ Ext = Docx
    /\ Len(chunks) = 2
    /\ Len(ChunkParas(1)) = 2
    /\ ChunkParas(2) = <<<<"b">>>>
    /\ Len(Paragraphs(text)) = 3

\* the number of '#' a line starts with
LeadingHashes(line) ==
    IF \A j \in 1..Len(line) : line[j] = "#" THEN Len(line)
    ELSE (CHOOSE k \in 1..Len(line) :
              line[k] # "#" /\ \A j \in 1..(k - 1) : line[j] = "#") - 1

\* a number, a dot (required or optional), blanks, then an upper-case letter
NumberedCapitalized(line, dot_required) ==
    \E d \in 1..Len(line) : \E e \in (d + 2)..Len(line) :
        /\ \A j \in 1..d : line[j] \in DigitSet
        /\ line[e] \in UpperSet
        /\ \/ line[d + 1] = "." /\ d + 2 < e /\ \A j \in (d + 2)..(e - 1) : IsSpace(line[j])
           \/ ~dot_required /\ \A j \in (d + 1)..(e - 1) : IsSpace(line[j])

\* the level the first matching rule gives a line, 0 when no rule matches
RuleLevel(line, dot_required) ==
    IF LeadingHashes(line) > 0
        THEN (IF LeadingHashes(line) > 3 THEN 3 ELSE LeadingHashes(line))
    ELSE IF IsUpper(line) THEN 1
    ELSE IF NumberedCapitalized(line, dot_required) THEN 2
    ELSE 0

\* every reported header is a trimmed line of the text (lines counted from 0)
\* and has the level of the first rule it matches, which is one of 1, 2, 3
HeadersFollowRules(dot_required) ==
    pc = "analyzed" =>
        \A h \in 1..Len(structure.headers) :
            LET hd == structure.headers[h] IN
                /\ hd.line_number \in 0..(Len(Split(text, Newline)) - 1)
                /\ hd.text = Strip(Split(text, Newline)[hd.line_number + 1])
                /\ hd.level \in {1, 2, 3}
                /\ hd.level = RuleLevel(hd.text, dot_required)

\* C13 as stated: every reported header has a level in {1, 2, 3} given by the
\* first matching rule: leading '#' run -> its length capped at 3; else fully
\* upper-case -> 1; else "<number>. <Capitalized word>" -> 2; a line matching
\* none of the rules is not reported.
C13_HeaderLevels == HeadersFollowRules(TRUE)

\* C13 amended: the same, the dot after the number being optional in the
\* third rule ("<number> <Capitalized word>" is a header of level 2 too).
C13_HeaderLevelsDotOptional == HeadersFollowRules(FALSE)

\* a numbered line without the dot and a run of four '#' were both reported,
\* with the levels 2 and 3
C13_Witness ==
    /\ pc = "analyzed"
    /\ \E h \in 1..Len(structure.headers) :
          structure.headers[h].text = <<"2", " ", "C", "d">> /\ structure.headers[h].level = 2
    /\ \E h \in 1..Len(structure.headers) :
          structure.headers[h].text = <<"#", "#", "#", "#", " ", "d">> /\ structure.headers[h].level = 3

====
